---- MODULE Spec2Model ----
(***************************************************************************)
(* Vehicle value estimator (src/app.py): the pricing heuristic             *)
(* estimate_value and the Streamlit page flow that feeds it.               *)
(*                                                                         *)
(* estimate_value mixes Python ints and floats, so its arithmetic is       *)
(* modelled as IEEE-754 binary64 (round to nearest, ties to even) over     *)
(* arbitrary precision naturals kept as little-endian limb sequences.      *)
(***************************************************************************)
EXTENDS Integers, Sequences, FiniteSets

(***************************************************************************)
(* Arbitrary precision naturals: little-endian sequences of limbs.         *)
(***************************************************************************)
LimbBits == 13
LimbBase == 8192

RECURSIVE Pow2(_)
Pow2(n) == IF n = 0 THEN 1 ELSE 2 * Pow2(n - 1)

RECURSIVE BNorm(_)
BNorm(a) == IF a = <<>> THEN a
            ELSE IF a[Len(a)] = 0 THEN BNorm(SubSeq(a, 1, Len(a) - 1))
            ELSE a

RECURSIVE BFromInt(_)
BFromInt(n) == IF n = 0 THEN <<>>
               ELSE <<n % LimbBase>> \o BFromInt(n \div LimbBase)

RECURSIVE BToInt(_)
BToInt(a) == IF a = <<>> THEN 0
             ELSE a[1] + LimbBase * BToInt(Tail(a))

Limb(a, i) == IF i <= Len(a) THEN a[i] ELSE 0

RECURSIVE BAddC(_, _, _, _)
BAddC(a, b, i, c) ==
    IF i > Len(a) /\ i > Len(b)
    THEN (IF c = 0 THEN <<>> ELSE <<c>>)
    ELSE LET t == Limb(a, i) + Limb(b, i) + c
         IN  <<t % LimbBase>> \o BAddC(a, b, i + 1, t \div LimbBase)

BAdd(a, b) == BNorm(BAddC(a, b, 1, 0))

\* a - b for a >= b
RECURSIVE BSubC(_, _, _, _)
BSubC(a, b, i, c) ==
    IF i > Len(a) THEN <<>>
    ELSE LET t == Limb(a, i) - Limb(b, i) - c
         IN  IF t < 0 THEN <<t + LimbBase>> \o BSubC(a, b, i + 1, 1)
                      ELSE <<t>> \o BSubC(a, b, i + 1, 0)

BSub(a, b) == BNorm(BSubC(a, b, 1, 0))

\* -1, 0, 1 as a < b, a = b, a > b (both normalised)
RECURSIVE BCmpAt(_, _, _)
BCmpAt(a, b, i) ==
    IF i = 0 THEN 0
    ELSE IF a[i] < b[i] THEN -1
    ELSE IF a[i] > b[i] THEN 1
    ELSE BCmpAt(a, b, i - 1)

BCmp(a, b) == IF Len(a) < Len(b) THEN -1
              ELSE IF Len(a) > Len(b) THEN 1
              ELSE BCmpAt(a, b, Len(a))

\* a * k for a small k (k < 2^17)
RECURSIVE BMulSmallC(_, _, _, _)
BMulSmallC(a, k, i, c) ==
    IF i > Len(a)
    THEN BFromInt(c)
    ELSE LET t == a[i] * k + c
         IN  <<t % LimbBase>> \o BMulSmallC(a, k, i + 1, t \div LimbBase)

BMulSmall(a, k) == BNorm(BMulSmallC(a, k, 1, 0))

BShiftLimbs(a, n) == IF a = <<>> THEN a ELSE [i \in 1..n |-> 0] \o a

RECURSIVE BMulAt(_, _, _)
BMulAt(a, b, i) ==
    IF i > Len(b) THEN <<>>
    ELSE BAdd(BShiftLimbs(BMulSmall(a, b[i]), i - 1), BMulAt(a, b, i + 1))

BMul(a, b) == BMulAt(a, b, 1)

\* <<quotient, remainder>> of a by a small d (d < 2^17), from the top limb down
RECURSIVE BDivSmallAt(_, _, _, _)
BDivSmallAt(a, d, i, r) ==
    IF i = 0 THEN <<<<>>, r>>
    ELSE LET t    == r * LimbBase + a[i]
             rest == BDivSmallAt(a, d, i - 1, t % d)
         IN  <<rest[1] \o <<t \div d>>, rest[2]>>

BNormQuotient(qr) == <<BNorm(qr[1]), qr[2]>>

BDivSmall(a, d) == BNormQuotient(BDivSmallAt(a, d, Len(a), 0))

BShl(a, n) == BShiftLimbs(BMulSmall(a, Pow2(n % LimbBits)), n \div LimbBits)

\* <<a shifted right by n bits, TRUE iff a nonzero bit was shifted out>>
BLowLimbs(a, nl) == SubSeq(a, 1, IF nl < Len(a) THEN nl ELSE Len(a))

BHighLimbs(a, nl) == IF nl < Len(a) THEN SubSeq(a, nl + 1, Len(a)) ELSE <<>>

BWithSticky(qr, low) ==
    <<qr[1], qr[2] # 0 \/ (\E i \in 1..Len(low) : low[i] # 0)>>

BShrSticky(a, n) ==
    BWithSticky(BDivSmall(BHighLimbs(a, n \div LimbBits), Pow2(n % LimbBits)),
                BLowLimbs(a, n \div LimbBits))

RECURSIVE IntBitLen(_)
IntBitLen(n) == IF n = 0 THEN 0 ELSE 1 + IntBitLen(n \div 2)

BBitLen(a) == IF a = <<>> THEN 0
              ELSE LimbBits * (Len(a) - 1) + IntBitLen(a[Len(a)])

BOdd(a) == a # <<>> /\ a[1] % 2 = 1

(***************************************************************************)
(* Python floats: s * m * 2^e with sign s, natural m below 2^53 after     *)
(* rounding, exponent e.  Every operation computes the exact result and    *)
(* rounds it once, as the hardware does.                                   *)
(***************************************************************************)
MantBits == 53

FZero == [s |-> 1, m |-> <<>>, e |-> 0]

\* round to nearest, ties to even, to MantBits significant bits
\* q = <<mantissa kept, the first bit dropped>>, sticky = a later bit dropped
FRoundPick(x, k, q, sticky) ==
    [s |-> x.s,
     m |-> IF q[2] = 1 /\ (sticky \/ BOdd(q[1]))
           THEN BAdd(q[1], <<1>>) ELSE q[1],
     e |-> x.e + k]

FRoundShift(x, k, qs) == FRoundPick(x, k, BDivSmall(qs[1], 2), qs[2])

FRoundTo(x, n) ==
    IF n <= MantBits THEN x
    ELSE FRoundShift(x, n - MantBits, BShrSticky(x.m, n - MantBits - 1))

FRound(x) == FRoundTo(x, BBitLen(x.m))

\* float(n) for a Python int n (exact below 2^53)
FFromInt(n) == IF n < 0 THEN [s |-> -1, m |-> BFromInt(-n), e |-> 0]
               ELSE [s |-> 1, m |-> BFromInt(n), e |-> 0]

DivShift == 78

\* n / d for Python ints n >= 0, d > 0 (true division, correctly rounded)
\* the quotient with one more bit that records a nonzero remainder
FQuotient(qr) ==
    FRound([s |-> 1,
            m |-> BAdd(BMulSmall(qr[1], 2), IF qr[2] # 0 THEN <<1>> ELSE <<>>),
            e |-> 0 - DivShift - 1])

FDivInt(n, d) ==
    IF n = 0 THEN FZero
    ELSE FQuotient(BDivSmall(BShl(BFromInt(n), DivShift), d))

FMul(x, y) == FRound([s |-> x.s * y.s, m |-> BMul(x.m, y.m), e |-> x.e + y.e])

FNeg(x) == [x EXCEPT !.s = 0 - x.s]

\* the exact sum of xs * xm * 2^e and ys * ym * 2^e, c = BCmp(xm, ym)
FExactSum(xs, xm, ys, ym, e, c) ==
    IF xs = ys THEN [s |-> xs, m |-> BAdd(xm, ym), e |-> e]
    ELSE IF c = 0 THEN FZero
    ELSE IF c > 0 THEN [s |-> xs, m |-> BSub(xm, ym), e |-> e]
    ELSE [s |-> ys, m |-> BSub(ym, xm), e |-> e]

FAddMant(xs, xm, ys, ym, e) ==
    FRound(FExactSum(xs, xm, ys, ym, e, BCmp(xm, ym)))

FAddAt(x, y, e) == FAddMant(x.s, BShl(x.m, x.e - e), y.s, BShl(y.m, y.e - e), e)

FAdd(x, y) == FAddAt(x, y, IF x.e < y.e THEN x.e ELSE y.e)

FSub(x, y) == FAdd(x, FNeg(y))

\* x > n for a float x and a Python int n
FPositive(d) == d.m # <<>> /\ d.s = 1

FGreaterInt(x, n) == FPositive(FAdd(x, FFromInt(0 - n)))

\* int(x): truncation toward zero
FTrunc(x) ==
    IF x.e >= 0 THEN x.s * BToInt(BShl(x.m, x.e))
    ELSE x.s * BToInt(BShrSticky(x.m, 0 - x.e)[1])

\* the float literal 0.80 = 7205759403792794 * 2^-53
F080 == [s |-> 1, m |-> <<6554, 3276, 1638, 4915, 1>>, e |-> -53]


(***************************************************************************)
(* Python str: a sequence of characters.  In(needle, hay) is the operator  *)
(* `needle in hay` (case-sensitive substring containment).                 *)
(***************************************************************************)
In(needle, hay) ==
    \E i \in 0..(Len(hay) - Len(needle)) :
        SubSeq(hay, i + 1, i + Len(needle)) = needle

Str_Toyota == <<"T", "o", "y", "o", "t", "a">>
Str_Corolla == <<"C", "o", "r", "o", "l", "l", "a">>
Str_Hyundai == <<"H", "y", "u", "n", "d", "a", "i">>
Str_Elantra == <<"E", "l", "a", "n", "t", "r", "a">>
Str_Chevrolet == <<"C", "h", "e", "v", "r", "o", "l", "e", "t">>
Str_FullEquipo == <<"F", "u", "l", "l", " ", "E", "q", "u", "i", "p", "o">>
Str_Sport == <<"S", "p", "o", "r", "t">>
Str_Limited == <<"L", "i", "m", "i", "t", "e", "d">>
Str_Luxury == <<"L", "u", "x", "u", "r", "y">>
Str_Basico == <<"B", "á", "s", "i", "c", "o">>
Str_Estandar == <<"E", "s", "t", "á", "n", "d", "a", "r">>
Str_Otra == <<"O", "t", "r", "a">>
Str_Aveo == <<"A", "v", "e", "o">>
Str_Kia == <<"K", "i", "a">>

VARIABLES
    today,          \* the year of the ambient date, pd.to_datetime('today').year
    args,           \* the five values estimate_value is (to be) invoked with
    calls,          \* the invocations of estimate_value: year read, pair returned
    uploaded_file,  \* TRUE iff the file uploader holds an image
    cache,          \* st.cache_data of analyze_image_with_gemini for that image
    gemini_failed,  \* TRUE iff the image analysis call raised
    vision_calls,   \* number of image analysis calls sent to Gemini
    widgets,        \* session values of the form widgets
    screen          \* what the latest run of the script did and displayed

(***************************************************************************)
(* estimate_value, src/app.py lines 86-136.                                *)
(***************************************************************************)
current_year == today

base_market_value == 8000000

\* slip: abs() in place of the clamp at zero
year_factor_abs(ano) ==
    LET yf == (current_year - ano) * 500000
    IN  IF yf < 0 THEN 0 - yf ELSE yf

year_factor(ano) ==
    LET yf == (current_year - ano) * 500000
    IN  IF yf < 0 THEN 0 ELSE yf

\* slip: the mileage penalty with its sign flipped
km_factor_negated(kilometraje) ==
    FNeg(FMul(FDivInt(kilometraje, 10000), FFromInt(100000)))

km_factor(kilometraje) ==
    FMul(FDivInt(kilometraje, 10000), FFromInt(100000))

\* slip: independent ifs that accumulate in place of the if/elif chain
market_adjustment_summed(marca, modelo) ==
    (IF In(Str_Toyota, marca) /\ In(Str_Corolla, modelo) THEN 1000000 ELSE 0)
    + (IF In(Str_Hyundai, marca) /\ In(Str_Elantra, modelo) THEN 500000 ELSE 0)
    + (IF In(Str_Chevrolet, marca) THEN -200000 ELSE 0)

market_adjustment(marca, modelo) ==
    IF In(Str_Toyota, marca) /\ In(Str_Corolla, modelo) THEN 1000000
    ELSE IF In(Str_Hyundai, marca) /\ In(Str_Elantra, modelo) THEN 500000
    ELSE IF In(Str_Chevrolet, marca) THEN -200000
    ELSE 0

version_adjustment(version) ==
    IF In(Str_FullEquipo, version) THEN 800000
    ELSE IF In(Str_Sport, version) THEN 1200000
    ELSE IF In(Str_Limited, version) \/ In(Str_Luxury, version) THEN 1500000
    ELSE 0

\* max(n, x) for a Python int n and a float x: x only when x > n
FMaxInt(n, x) == IF FGreaterInt(x, n) THEN x ELSE FFromInt(n)

\* slip: the floor of 1,000,000 left out
estimated_market_value_nofloor(marca, modelo, ano, kilometraje, version) ==
    FAdd(FAdd(FSub(FFromInt(base_market_value - year_factor(ano)),
                   km_factor(kilometraje)),
              FFromInt(market_adjustment(marca, modelo))),
         FFromInt(version_adjustment(version)))

estimated_market_value(marca, modelo, ano, kilometraje, version) ==
    FMaxInt(1000000,
            FAdd(FAdd(FSub(FFromInt(base_market_value - year_factor(ano)),
                           km_factor(kilometraje)),
                      FFromInt(market_adjustment(marca, modelo))),
                 FFromInt(version_adjustment(version))))

\* slip: the trade-in floor typed with one zero too many
estimated_trade_in_value_floor_typo(emv) ==
    FMaxInt(5000000, FSub(FMul(emv, F080), FFromInt(200000)))

estimated_trade_in_value(emv) ==
    FMaxInt(500000, FSub(FMul(emv, F080), FFromInt(200000)))

\* line 136, with the trade-in value of lines 133-134
ReturnPair(emv) == <<FTrunc(emv), FTrunc(estimated_trade_in_value(emv))>>

\* slip: a module-level accumulator carried from one invocation to the next
estimate_value_stateful(marca, modelo, ano, kilometraje, version) ==
    ReturnPair(FAdd(estimated_market_value(marca, modelo, ano, kilometraje,
                                           version),
                    FFromInt(1000 * Len(calls))))

estimate_value(marca, modelo, ano, kilometraje, version) ==
    ReturnPair(estimated_market_value(marca, modelo, ano, kilometraje, version))

Estimate(a) ==
    estimate_value(a.marca, a.modelo, a.ano, a.kilometraje, a.version)

\* the year of the ambient date when the application starts
FirstYear == 2024

(***************************************************************************)
(* The page flow, src/app.py lines 141-255.  Streamlit runs the script     *)
(* from top to bottom after every interaction, so every action below is    *)
(* one interaction followed by one complete run of the script.             *)
(***************************************************************************)
Str_MarcaTag == <<"M", "a", "r", "c", "a", ":">>
Str_ModeloTag == <<"M", "o", "d", "e", "l", "o", ":">>
Str_Desconocida == <<"D", "e", "s", "c", "o", "n", "o", "c", "i", "d", "a">>
Str_Desconocido == <<"D", "e", "s", "c", "o", "n", "o", "c", "i", "d", "o">>
FallbackText == <<"N", "o", " ", "s", "e", " ", "p", "u", "d", "o", " ", "a",
    "n", "a", "l", "i", "z", "a", "r", " ", "l", "a", " ", "i", "m", "a",
    "g", "e", "n", " ", "c", "o", "n", " ", "G", "e", "m", "i", "n", "i",
    ".", " ", "I", "n", "t", "é", "n", "t", "a", "l", "o", " ", "d", "e",
    " ", "n", "u", "e", "v", "o", ".">>
Str_Rio == <<"R", "i", "o">>
Str_GT == <<"G", "T">>

\* str.find from index i (1-based): least index of needle in hay, 0 if none
RECURSIVE Find(_, _, _)
Find(needle, hay, i) ==
    IF i + Len(needle) - 1 > Len(hay) THEN 0
    ELSE IF SubSeq(hay, i, i + Len(needle) - 1) = needle THEN i
    ELSE Find(needle, hay, i + 1)

\* str.split(sep)
RECURSIVE Split(_, _)
Split(text, sep) ==
    LET i == Find(sep, text, 1)
    IN  IF i = 0 THEN <<text>>
        ELSE <<SubSeq(text, 1, i - 1)>>
             \o Split(SubSeq(text, i + Len(sep), Len(text)), sep)

Whitespace == {" ", "\t", "\n", "\r", "\f"}

RECURSIVE LStrip(_)
LStrip(text) == IF text # <<>> /\ Head(text) \in Whitespace
                THEN LStrip(Tail(text)) ELSE text

RECURSIVE RStrip(_)
RStrip(text) == IF text # <<>> /\ text[Len(text)] \in Whitespace
                THEN RStrip(SubSeq(text, 1, Len(text) - 1)) ELSE text

\* str.strip()
Strip(text) == RStrip(LStrip(text))

\* the loop over the lines of the analysis, from line i on
RECURSIVE ParseLines(_, _, _)
ParseLines(lines, i, found) ==
    IF i > Len(lines) THEN found
    ELSE LET line == lines[i]
             m == IF In(Str_MarcaTag, line)
                  THEN Strip(Split(line, Str_MarcaTag)[2]) ELSE found.marca
             o == IF In(Str_ModeloTag, line)
                  THEN Strip(Split(line, Str_ModeloTag)[2]) ELSE found.modelo
         IN  ParseLines(lines, i + 1, [marca |-> m, modelo |-> o])

\* marca_gemini and modelo_gemini
ParseAnalysis(gemini_analysis_text) ==
    ParseLines(Split(gemini_analysis_text, <<"\n">>), 1,
               [marca |-> Str_Desconocida, modelo |-> Str_Desconocido])

\* what Gemini may answer for the image; ok = FALSE is a call that raises
GeminiTexts == {
    Str_MarcaTag \o <<" ">> \o Str_Toyota \o <<"\n">>
        \o Str_ModeloTag \o <<" ">> \o Str_Corolla,
    Str_MarcaTag \o <<" ">> \o Str_Chevrolet \o <<" ">>
        \o Str_ModeloTag \o <<" ">> \o Str_Aveo,
    Str_MarcaTag \o <<"\n">> \o Str_ModeloTag \o <<" ">> \o Str_Aveo,
    <<"S", "e", "d", "a", "n">>}

VisionOutcomes == {[ok |-> TRUE, text |-> t] : t \in GeminiTexts}
                  \cup {[ok |-> FALSE, text |-> <<>>]}

\* slip: no try/except around the call, the exception leaves the function
analyze_image_with_gemini_uncaught(outcome) ==
    [raised |-> ~outcome.ok, text |-> outcome.text]

\* the body of analyze_image_with_gemini, run on a cache miss
analyze_image_with_gemini(outcome) ==
    IF outcome.ok THEN [raised |-> FALSE, text |-> outcome.text]
    ELSE [raised |-> FALSE, text |-> FallbackText]

\* the cached call: the outcomes of line 153 in the current state
AnalysisStep ==
    IF cache # <<>>
    THEN {[raised |-> FALSE, text |-> cache[1], called |-> FALSE,
           failed |-> gemini_failed]}
    ELSE {[raised |-> analyze_image_with_gemini(o).raised,
           text   |-> analyze_image_with_gemini(o).text,
           called |-> TRUE, failed |-> ~o.ok] : o \in VisionOutcomes}

versiones_comunes == <<Str_Basico, Str_Estandar, Str_FullEquipo, Str_Sport,
                       Str_Limited, Str_Luxury, Str_Otra>>

\* a text_input holds <<>> while untouched (its default shows) and <<t>> once
\* the user has typed t; the year input holds <<>> or <<y, current year>>: its
\* default and maximum follow the current year, so a value entered in an
\* earlier year belongs to a widget that no longer exists
DefaultWidgets ==
    [confirm_auto |-> TRUE, marca_final |-> <<>>, modelo_final |-> <<>>,
     ano |-> <<>>, kilometraje |-> 50000,
     version_especifica |-> versiones_comunes[1], version_otra |-> <<>>]

\* the widgets a run finds again: a year entered under another current year
\* is gone with its widget
LiveWidgets(w) ==
    [w EXCEPT !.ano = IF w.ano # <<>> /\ w.ano[2] = current_year
                      THEN w.ano ELSE <<>>]

\* the script's variables marca_final .. version_especifica after line 198
ScriptValues(w, gemini_analysis_text) ==
    LET g == ParseAnalysis(gemini_analysis_text)
    IN  [marca   |-> IF ~w.confirm_auto /\ w.marca_final # <<>>
                     THEN w.marca_final[1] ELSE g.marca,
         modelo  |-> IF ~w.confirm_auto /\ w.modelo_final # <<>>
                     THEN w.modelo_final[1] ELSE g.modelo,
         ano     |-> IF LiveWidgets(w).ano = <<>> THEN current_year
                     ELSE w.ano[1],
         kilometraje |-> w.kilometraje,
         version |-> IF w.version_especifica = Str_Otra
                     THEN w.version_otra ELSE w.version_especifica]

\* slip: `kilometraje` tested for truth in place of `is not None`
fields_complete_truthy(a) ==
    /\ a.marca # <<>>
    /\ a.modelo # <<>>
    /\ a.ano # 0
    /\ a.kilometraje # 0
    /\ a.version # <<>>

\* the condition of line 206; kilometraje is an int, never None
fields_complete(a) ==
    /\ a.marca # <<>>
    /\ a.modelo # <<>>
    /\ a.ano # 0
    /\ a.version # <<>>

\* lines 246-251: the explanation call inside its try/except
explanation_step(ok) ==
    [raised |-> FALSE, shown |-> IF ok THEN "text" ELSE "fallback",
     sent |-> 1, failed |-> ~ok]

NoExplanation == [raised |-> FALSE, shown |-> "none", sent |-> 0, failed |-> FALSE]

NoArgs == [marca |-> <<>>, modelo |-> <<>>, ano |-> 0, kilometraje |-> 0,
           version |-> <<>>]

\* kind: "idle" no file, "form" the form alone, "error" the message of line
\* 255, "result" the two metrics, "exception" an uncaught exception ended the run
Screen(kind, button, pair, e) ==
    [kind |-> kind, button |-> button, valor_mercado |-> pair[1],
     valor_toma |-> pair[2], explanation |-> e.shown,
     explain_calls |-> e.sent, explain_failed |-> e.failed]

IdleScreen == Screen("idle", FALSE, <<0, 0>>, NoExplanation)

\* one run of the script with a file uploaded, widget values w, and the
\* estimate button pressed or not
Run(w, button) ==
    \E r \in AnalysisStep :
        /\ widgets' = LiveWidgets(w)
        /\ vision_calls' = vision_calls + (IF r.called THEN 1 ELSE 0)
        /\ gemini_failed' = r.failed
        /\ cache' = IF r.raised THEN cache ELSE <<r.text>>
        /\ IF r.raised
           THEN /\ args' = NoArgs
                /\ calls' = <<>>
                /\ screen' = Screen("exception", button, <<0, 0>>,
                                    NoExplanation)
           ELSE LET a == ScriptValues(w, r.text)
                IN  /\ args' = a
                    /\ IF ~button
                       THEN /\ calls' = <<>>
                            /\ screen' = Screen("form", FALSE, <<0, 0>>,
                                                NoExplanation)
                       ELSE IF fields_complete(a)
                       THEN \E ok \in BOOLEAN :
                              LET out == Estimate(a)
                                  e   == explanation_step(ok)
                              IN  /\ calls' = <<[cy |-> current_year,
                                                 out |-> out]>>
                                  /\ screen' =
                                       Screen(IF e.raised THEN "exception"
                                              ELSE "result", TRUE, out, e)
                       ELSE /\ calls' = <<>>
                            /\ screen' = Screen("error", TRUE, <<0, 0>>,
                                                NoExplanation)

TypedTexts == {<<>>, Str_Kia}
TypedModelos == {<<>>, Str_Rio}
TypedVersiones == {<<>>, Str_GT}
PageAnos == {1990, FirstYear + 1}
PageKilometrajes == {0, 50000, 150000}

Init ==
    /\ today = FirstYear
    /\ args = NoArgs
    /\ calls = <<>>
    /\ uploaded_file = FALSE
    /\ cache = <<>>
    /\ gemini_failed = FALSE
    /\ vision_calls = 0
    /\ widgets = DefaultWidgets
    /\ screen = IdleScreen

Upload ==
    /\ ~uploaded_file
    /\ uploaded_file' = TRUE
    /\ Run(DefaultWidgets, FALSE)
    /\ UNCHANGED today

\* without a file nothing below line 144 runs and the form's widgets are gone
RemoveFile ==
    /\ uploaded_file
    /\ uploaded_file' = FALSE
    /\ widgets' = DefaultWidgets
    /\ args' = NoArgs
    /\ calls' = <<>>
    /\ screen' = IdleScreen
    /\ UNCHANGED <<today, cache, gemini_failed, vision_calls>>

\* unticking shows the two text inputs; ticking removes them and their values
ToggleConfirm ==
    /\ uploaded_file
    /\ Run([widgets EXCEPT !.confirm_auto = ~widgets.confirm_auto,
                           !.marca_final = <<>>, !.modelo_final = <<>>],
           FALSE)
    /\ UNCHANGED <<today, uploaded_file>>

EditMarca ==
    /\ uploaded_file /\ ~widgets.confirm_auto
    /\ \E t \in TypedTexts :
           Run([widgets EXCEPT !.marca_final = <<t>>], FALSE)
    /\ UNCHANGED <<today, uploaded_file>>

EditModelo ==
    /\ uploaded_file /\ ~widgets.confirm_auto
    /\ \E t \in TypedModelos :
           Run([widgets EXCEPT !.modelo_final = <<t>>], FALSE)
    /\ UNCHANGED <<today, uploaded_file>>

SetAno ==
    /\ uploaded_file
    /\ \E y \in PageAnos :
           /\ 1990 <= y /\ y <= current_year + 1
           /\ Run([widgets EXCEPT !.ano = <<y, current_year>>], FALSE)
    /\ UNCHANGED <<today, uploaded_file>>

SetKilometraje ==
    /\ uploaded_file
    /\ \E k \in PageKilometrajes :
           /\ 0 <= k
           /\ Run([widgets EXCEPT !.kilometraje = k], FALSE)
    /\ UNCHANGED <<today, uploaded_file>>

\* the free-text input exists only while "Otra" is selected
SelectVersion ==
    /\ uploaded_file
    /\ \E i \in DOMAIN versiones_comunes :
           Run([widgets EXCEPT !.version_especifica = versiones_comunes[i],
                               !.version_otra = <<>>], FALSE)
    /\ UNCHANGED <<today, uploaded_file>>

EditVersion ==
    /\ uploaded_file /\ widgets.version_especifica = Str_Otra
    /\ \E t \in TypedVersiones :
           Run([widgets EXCEPT !.version_otra = t], FALSE)
    /\ UNCHANGED <<today, uploaded_file>>

PressEstimate ==
    /\ uploaded_file
    /\ Run(widgets, TRUE)
    /\ UNCHANGED <<today, uploaded_file>>

pageVars == <<uploaded_file, cache, gemini_failed, vision_calls, widgets, screen>>

vars == <<today, args, calls, pageVars>>

MaxTicks == 1

\* the ambient date passes New Year; nothing runs until the next interaction
NewYear ==
    /\ today < FirstYear + MaxTicks
    /\ today' = today + 1
    /\ UNCHANGED <<args, calls, pageVars>>

Next ==
    \/ Upload
    \/ RemoveFile
    \/ ToggleConfirm
    \/ EditMarca
    \/ EditModelo
    \/ SetAno
    \/ SetKilometraje
    \/ SelectVersion
    \/ EditVersion
    \/ PressEstimate
    \/ NewYear

Spec == Init /\ [][Next]_vars

(***************************************************************************)
(* Estimator harness: the arguments are drawn at Init, estimate_value is   *)
(* invoked with them up to MaxCalls times while the ambient year may       *)
(* advance (NewYear).                                                      *)
(***************************************************************************)
MaxCalls == 2

Marcas == {Str_Toyota, Str_Hyundai, Str_Chevrolet, Str_Kia,
           Str_Chevrolet \o <<" ">> \o Str_Toyota,
           Str_Hyundai \o <<" ">> \o Str_Chevrolet}
Modelos == {Str_Corolla, Str_Elantra, Str_Aveo}
Versiones == {Str_Basico, Str_FullEquipo, Str_Sport, Str_Limited, Str_Luxury,
              Str_Sport \o <<" ">> \o Str_FullEquipo,
              Str_Limited \o <<" ">> \o Str_Sport}
Anos == {1990, 2012, 2014, FirstYear, FirstYear + 1}
Kilometrajes == {0, 50000, 95149, 150000, 382000, 382001, 1000000}

\* every brand, model and trim for a new vehicle, every year and mileage
\* for a few vehicles
EstInputs ==
    {a \in [marca : Marcas, modelo : Modelos, ano : Anos,
            kilometraje : Kilometrajes, version : Versiones] :
        \/ a.ano = FirstYear /\ a.kilometraje \in {0, 382000}
        \/ /\ a.marca \in {Str_Toyota, Str_Chevrolet, Str_Kia}
           /\ a.modelo \in {Str_Corolla, Str_Aveo}
           /\ a.version \in {Str_Basico, Str_Sport}}

EstInit ==
    /\ today = FirstYear
    /\ args \in EstInputs
    /\ calls = <<>>
    /\ uploaded_file = FALSE
    /\ cache = <<>>
    /\ gemini_failed = FALSE
    /\ vision_calls = 0
    /\ widgets = DefaultWidgets
    /\ screen = IdleScreen

Invoke ==
    /\ Len(calls) < MaxCalls
    /\ calls' = Append(calls, [cy |-> current_year, out |-> Estimate(args)])
    /\ UNCHANGED <<today, args, pageVars>>

EstNext == Invoke \/ NewYear

SpecEst == EstInit /\ [][EstNext]_vars


(***************************************************************************)
(* Properties of estimate_value, checked under SpecEst.                    *)
(***************************************************************************)
Max(a, b) == IF a >= b THEN a ELSE b

MinOf(S) == CHOOSE x \in S : \A y \in S : x <= y

\* the rule tables as the specification words them, in priority order
BrandRules == <<[marca |-> Str_Toyota, modelo |-> Str_Corolla, amount |-> 1000000],
                [marca |-> Str_Hyundai, modelo |-> Str_Elantra, amount |-> 500000],
                [marca |-> Str_Chevrolet, modelo |-> <<>>, amount |-> -200000]>>

TrimRules == <<[keys |-> {Str_FullEquipo}, amount |-> 800000],
               [keys |-> {Str_Sport}, amount |-> 1200000],
               [keys |-> {Str_Limited, Str_Luxury}, amount |-> 1500000]>>

BrandMatches(a) ==
    {r \in DOMAIN BrandRules :
        In(BrandRules[r].marca, a.marca) /\ In(BrandRules[r].modelo, a.modelo)}

TrimMatches(a) ==
    {r \in DOMAIN TrimRules : \E k \in TrimRules[r].keys : In(k, a.version)}

FirstBrandAmount(a) ==
    IF BrandMatches(a) = {} THEN 0 ELSE BrandRules[MinOf(BrandMatches(a))].amount

FirstTrimAmount(a) ==
    IF TrimMatches(a) = {} THEN 0 ELSE TrimRules[MinOf(TrimMatches(a))].amount

\* an input that satisfies only the earliest rule a satisfies, in each chain
Canonical(a) ==
    LET b == IF BrandMatches(a) = {} THEN 0 ELSE MinOf(BrandMatches(a))
        t == IF TrimMatches(a) = {} THEN 0 ELSE MinOf(TrimMatches(a))
    IN  [a EXCEPT
           !.marca   = IF b = 0 THEN Str_Kia ELSE BrandRules[b].marca,
           !.modelo  = IF b = 0 \/ b = 3 THEN Str_Aveo ELSE BrandRules[b].modelo,
           !.version = IF t = 0 THEN Str_Basico
                       ELSE IF t = 3 THEN Str_Limited
                       ELSE CHOOSE k \in TrimRules[t].keys : TRUE]

\* the market value in exact arithmetic, as the specification states it
ExactMarket(a, cy) ==
    Max(1000000,
        8000000 - Max(0, (cy - a.ano) * 500000) - a.kilometraje * 10
          + FirstBrandAmount(a) + FirstTrimAmount(a))

\* C1: every returned market value is at least 1,000,000 and every returned
\* trade-in value is at least 500,000.
C1_Floors ==
    \A i \in DOMAIN calls :
        calls[i].out[1] >= 1000000 /\ calls[i].out[2] >= 500000

C1_Witness ==
    \E i \in DOMAIN calls :
        /\ args.kilometraje = 1000000
        /\ calls[i].out = <<1000000, 600000>>

\* C2: the returned trade-in value equals
\* max(500,000, round_down(M * 0.80 - 200,000)) for the returned market value M.
C2_TradeInFromMarket ==
    \A i \in DOMAIN calls :
        calls[i].out[2] =
            Max(500000, (4 * calls[i].out[1] - 1000000) \div 5)

\* C3: the returned trade-in value never exceeds the returned market value.
C3_TradeInAtMostMarket ==
    \A i \in DOMAIN calls : calls[i].out[2] <= calls[i].out[1]

C3_Witness ==
    \E i \in DOMAIN calls :
        /\ args.ano = 1990
        /\ calls[i].out[1] = 1000000
        /\ calls[i].out[2] < calls[i].out[1]

\* C4 as claimed: with everything else fixed, a later year never gives a
\* greater market value.
C4_YearNeverIncreases ==
    \A i \in DOMAIN calls :
        calls[i].cy = current_year =>
            \A y \in Anos :
                y > args.ano =>
                    Estimate([args EXCEPT !.ano = y])[1] <= calls[i].out[1]

\* C4 as amended: with everything else fixed, a later year never gives a
\* smaller market value.
C4_YearNeverDecreases ==
    \A i \in DOMAIN calls :
        calls[i].cy = current_year =>
            \A y \in Anos :
                y > args.ano =>
                    Estimate([args EXCEPT !.ano = y])[1] >= calls[i].out[1]

C4_Witness ==
    \E i \in DOMAIN calls :
        /\ calls[i].cy = current_year
        /\ args.ano = 2014
        /\ Estimate([args EXCEPT !.ano = current_year + 1])[1] > calls[i].out[1]

\* C5: with everything else fixed, a greater mileage never gives a greater
\* market value nor a greater trade-in value.
C5_MileageMonotone ==
    \A i \in DOMAIN calls :
        calls[i].cy = current_year =>
            \A k \in Kilometrajes :
                k > args.kilometraje =>
                    LET o == Estimate([args EXCEPT !.kilometraje = k])
                    IN  o[1] <= calls[i].out[1] /\ o[2] <= calls[i].out[2]

C5_Witness ==
    \E i \in DOMAIN calls :
        /\ calls[i].cy = current_year
        /\ args.kilometraje = 382000
        /\ Estimate([args EXCEPT !.kilometraje = 382001])[1] < calls[i].out[1]

\* C6: in each rule chain only the earliest matching rule is applied, and
\* adjustments of two rules of one chain are never summed: the result is that
\* of an input matching the earliest rule alone, and for a new vehicle with
\* 0 km it is 8,000,000 plus the earliest brand and trim amounts.
C6_FirstMatchWins ==
    \A i \in DOMAIN calls :
        /\ calls[i].cy = current_year =>
               calls[i].out = Estimate(Canonical(args))
        /\ args.kilometraje = 0 /\ args.ano >= calls[i].cy =>
               calls[i].out[1] =
                   8000000 + FirstBrandAmount(args) + FirstTrimAmount(args)

C6_Witness ==
    \E i \in DOMAIN calls :
        /\ Cardinality(BrandMatches(args)) > 1
        /\ Cardinality(TrimMatches(args)) > 1
        /\ args.kilometraje = 0 /\ args.ano = calls[i].cy
        /\ calls[i].out[1] = 9800000

\* C7: the returned market value equals
\* max(1,000,000, 8,000,000 - age_penalty - mileage * 10 + brand_adjustment
\* + trim_adjustment).
C7_MarketFormula ==
    \A i \in DOMAIN calls :
        calls[i].out[1] = ExactMarket(args, calls[i].cy)

C9_ValidatedBeforeInvoke ==
    /\ calls # <<>> =>
           /\ args.marca # <<>> /\ args.modelo # <<>> /\ args.version # <<>>
           /\ args.ano \in 1990..(current_year + 1)
           /\ args.kilometraje >= 0
    /\ screen.button
         /\ (args.marca = <<>> \/ args.modelo = <<>> \/ args.version = <<>>) =>
           calls = <<>> /\ screen.kind = "error"
    /\ screen.button /\ args.kilometraje = 0
         /\ args.marca # <<>> /\ args.modelo # <<>> /\ args.version # <<>> =>
           calls # <<>> /\ screen.kind = "result"

C9_Witness ==
    /\ screen.button /\ screen.kind = "error" /\ calls = <<>>
    /\ widgets.version_especifica = Str_Otra /\ args.version = <<>>
    /\ args.marca # <<>> /\ args.kilometraje = 0

\* C10: no run of the script ends in an exception; after a failed image
\* analysis the analysis text is the fixed fallback, the identified brand and
\* model are the defaults and the form is shown; after a failed explanation
\* the two figures of the estimate are shown with the fallback message; the
\* image is analysed at most once and a press explains at most once.
C10_FailuresDoNotAbort ==
    /\ screen.kind # "exception"
    /\ vision_calls <= 1
    /\ screen.explain_calls <= 1
    /\ uploaded_file /\ gemini_failed =>
           /\ cache = <<FallbackText>>
           /\ screen.kind \in {"form", "error", "result"}
           /\ widgets.confirm_auto =>
                  args.marca = Str_Desconocida /\ args.modelo = Str_Desconocido
    /\ screen.explain_failed =>
           /\ screen.kind = "result"
           /\ screen.explanation = "fallback"
           /\ calls # <<>>
           /\ <<screen.valor_mercado, screen.valor_toma>> = calls[1].out

C10_Witness ==
    /\ gemini_failed /\ vision_calls = 1
    /\ screen.kind = "result" /\ screen.explain_failed
    /\ args.marca = Str_Desconocida /\ args.modelo = Str_Desconocido
    /\ screen.valor_mercado >= 1000000

====
